---- MODULE Spec2Model ----
(***************************************************************************)
(* Model of SharedProcessWorkerService and SharedProcessWebWorker          *)
(* (src/vs/platform/sharedProcess/electron-browser/                        *)
(* sharedProcessWorkerService.ts).                                         *)
(*                                                                         *)
(* The service runs on one JavaScript event loop.  A step of the model is  *)
(* one of:                                                                 *)
(*   - a call of createWorker / disposeWorker by the service's caller: the *)
(*     synchronous part of the method, up to its first `await`;            *)
(*   - a message event of a Worker (WorkerReady, WorkerAck): a macrotask,  *)
(*     which the event loop only starts when the microtask queue is empty; *)
(*   - the continuation at the head of the microtask queue (the code after *)
(*     an `await` whose promise has resolved).  Continuations run in FIFO  *)
(*     order, as promise reactions do.                                     *)
(* The caller is unconstrained: it may call the service from a macrotask   *)
(* of its own or from a promise reaction of its own.  Its code runs in a   *)
(* macrotask of its own, where its calls may fall between any two          *)
(* continuations; during a message event of a Worker its code runs only    *)
(* after a createWorker promise it may be awaiting has resolved.           *)
(***************************************************************************)
EXTENDS Integers, Sequences, FiniteSets, TLC

\* Bound on the number of createWorker invocations explored.
MaxCalls == 2

\* Bound on the number of disposeWorker invocations by the caller explored.
MaxDisposeCalls == 1

\* CancellationToken.None: the token that is never cancelled.
None == 0

\* The configurations the caller may submit (ISharedProcessWorkerConfiguration).
cfgA1 == [process |-> [moduleId |-> "m1", type |-> "A"], reply |-> [windowId |-> "w1"]]
cfgA2 == [process |-> [moduleId |-> "m2", type |-> "A"], reply |-> [windowId |-> "w2"]]
cfgB1 == [process |-> [moduleId |-> "m1", type |-> "B"], reply |-> [windowId |-> "w2"]]
Configurations == {cfgA1, cfgA2, cfgB1}

\* hash(configuration): the identity of a configuration, derived from its
\* contents (the hashing collaborator's contract: equal configurations hash
\* equal).
hash(configuration) ==
    <<configuration.process.moduleId, configuration.reply.windowId>>

Hashes == {hash(c) : c \in Configurations}

VARIABLES
    workers,      \* this.workers: moduleId -> web worker (0: no entry)
    processes,    \* this.processes: configuration hash -> process handle (0: no entry)
    webWorkers,   \* the SharedProcessWebWorker objects constructed so far
    calls,        \* the createWorker invocations: locals, cts, position
    sends,        \* the SharedProcessWebWorker.send invocations
    microtasks,   \* FIFO queue of continuations whose awaited promise resolved
    posted,       \* messages handed to Worker.postMessage, in order
    relayed,      \* ipcRenderer.postMessage calls to the relay channel, in order
    uuid,         \* number of nonces generateUuid has produced
    disposeCalls, \* number of disposeWorker invocations by the caller
    callerRuns,   \* code of the service's caller may run before the next
                  \* continuation (always so when no continuation is queued)
    lastCall      \* the call or matched Ack that produced the current state
                  \* (NoCall after any other step)

vars == <<workers, processes, webWorkers, calls, sends, microtasks, posted,
          relayed, uuid, disposeCalls, callerRuns, lastCall>>

\* The state of the program proper (everything but the step label).
progVars == <<workers, processes, webWorkers, calls, sends, microtasks, posted,
              relayed, uuid>>

\* The caller can make a call now: a macrotask of its own can start, or its
\* code can run in the current one.
CallerCanCall == callerRuns \/ microtasks = <<>>

NoCall == [op |-> "none", configuration |-> cfgA1, worker |-> 0, nonce |-> 0]
ApiCall(op, configuration) ==
    [op |-> op, configuration |-> configuration, worker |-> 0, nonce |-> 0]

\* The step is the WorkerAck event of web worker w carrying a nonce that is in
\* the map of w.
AckEvent(w, nonce) ==
    [op |-> "WorkerAck", configuration |-> cfgA1, worker |-> w, nonce |-> nonce]

\* A continuation waiting in the microtask queue.
Task(kind, arg) == [kind |-> kind, arg |-> arg]

----------------------------------------------------------------------------
\* Cancellation

\* token.isCancellationRequested: a call's token is identified with the call.
isCancellationRequested(token) ==
    token # None /\ calls[token].cancelled

----------------------------------------------------------------------------
\* SharedProcessWorkerService.getOrCreateWebWorker

\* Variant: web workers are keyed by the process type.
WorkerKey_type(configuration) == configuration.process.type

\* The registry key of the web worker that hosts a configuration.
WorkerKey(configuration) == configuration.process.moduleId

\* Variant: the lookup never finds the stored web worker.
HasWebWorker_never(registry, key) == FALSE

\* The keys of this.workers.
WorkerKeys == {WorkerKey(c) : c \in Configurations}

\* `if (!webWorkerPromise)` is false: the registry holds a web worker for the key.
HasWebWorker(registry, key) == registry[key] # 0

\* new SharedProcessWebWorker(type, logService): workerReady pending,
\* init() pending, nobody awaiting it, empty nonce map.
NewWebWorker(configuration) ==
    [type     |-> configuration.process.type,
     key      |-> WorkerKey(configuration),
     ready    |-> FALSE,
     inited   |-> FALSE,
     awaiters |-> <<>>,
     nonces   |-> {}]

\* getOrCreateWebWorker on the given registry: the web worker it returns and
\* the registry and web workers after it.
getOrCreateWebWorker(registry, configuration) ==
    LET key == WorkerKey(configuration) IN
    IF HasWebWorker(registry, key)
    THEN [worker |-> registry[key], workers |-> registry, webWorkers |-> webWorkers]
    ELSE [worker     |-> Len(webWorkers) + 1,
          workers    |-> [registry EXCEPT ![key] = Len(webWorkers) + 1],
          webWorkers |-> Append(webWorkers, NewWebWorker(configuration))]

----------------------------------------------------------------------------
\* The disposable stored in this.processes by createWorker

\* Variant: the disposal leaves the ports as they are.
ClosePort_noop(port) == port

\* MessagePort.close(): no effect on a port that does not exist yet, that was
\* transferred away or that is already closed.
ClosePort(port) == IF port = "open" THEN "closed" ELSE port

\* Variant: terminate is called with the token of the handle's own source.
TerminateToken_cts(h) == h

\* The token worker.terminate is called with during disposal.
TerminateToken(h) == None

\* A new invocation of SharedProcessWebWorker.send: it suspends at
\* `await this.workerReady`.
NewSend(id, h, w, token, port) ==
    [id            |-> id,
     configuration |-> calls[h].configuration,
     call          |-> h,
     worker        |-> w,
     token         |-> token,
     port          |-> port,
     state         |-> "awaitReady",
     nonce         |-> 0,
     resolved      |-> 0]

\* Variant: the disposal does not ask the web worker to terminate.
Terminates_never(h) == FALSE

\* `worker?.terminate(...)`: terminate is called only if the invocation has
\* assigned its `worker` local.
Terminates(h) == calls[h].worker # 0

\* Variant: the continuation of a send runs before those queued earlier.
AwaitWorkerReady_first(queue, s) == <<Task("send", s)>> \o queue

\* `await this.workerReady` in send, workerReady being resolved: the rest of
\* send s is queued behind the continuations already queued.
AwaitWorkerReady(queue, s) == Append(queue, Task("send", s))

\* Variant: cancelling resumes the invocation that awaits its spawn.
cancel_resumes(h, queue) ==
    IF calls[h].pc = "awaitSpawn"
    THEN Append(queue, Task("createWorker73", h))
    ELSE queue

\* `cts.dispose(true)`: the continuations queued by cancelling the token of
\* handle h.  Nothing listens to the token (send only reads it once), so
\* none is queued.
cancel(h, queue) == queue

\* processDisposable.dispose() of handle h: the state it leaves behind.
DisposeWith(h, dropWorker) ==
    LET terminates == Terminates(h) IN
    [calls      |-> [calls EXCEPT ![h].cancelled  = TRUE,
                                  ![h].disposedAt = calls[h].pc,
                                  ![h].windowPort = ClosePort(@),
                                  ![h].workerPort = ClosePort(@)],
     sends      |-> IF terminates
                    THEN Append(sends, NewSend("Terminate", h, calls[h].worker,
                                               TerminateToken(h), 0))
                    ELSE sends,
     microtasks |-> IF terminates
                    THEN AwaitWorkerReady(cancel(h, microtasks), Len(sends) + 1)
                    ELSE cancel(h, microtasks),
     processes  |-> [processes EXCEPT ![hash(calls[h].configuration)] = 0],
     workers    |-> IF dropWorker
                    THEN [workers EXCEPT ![WorkerKey(calls[h].configuration)] = 0]
                    ELSE workers]

\* Variant: the disposal also drops the web worker of the process.
processDisposable_dropsWorker(h) == DisposeWith(h, TRUE)

processDisposable(h) == DisposeWith(h, FALSE)

\* Variant: the handle is looked up by the module id alone.
ExistingProcess_byModule(configuration) ==
    LET hs == {h \in Hashes : processes[h] # 0 /\ h[1] = configuration.process.moduleId} IN
    IF hs = {} THEN 0 ELSE processes[CHOOSE h \in hs : TRUE]

\* Variant: the lookup never finds a registered handle.
ExistingProcess_none(configuration) == 0

\* this.processes.get(hash(configuration))
ExistingProcess(configuration) == processes[hash(configuration)]

\* SharedProcessWorkerService.disposeWorker: the state it leaves behind.
disposeWorker(configuration) ==
    LET h == ExistingProcess(configuration) IN
    IF h # 0
    THEN processDisposable(h)
    ELSE [calls |-> calls, sends |-> sends, microtasks |-> microtasks,
          processes |-> processes, workers |-> workers]

----------------------------------------------------------------------------
\* Initial state: a freshly constructed service.

Init ==
    /\ workers = [k \in WorkerKeys |-> 0]
    /\ processes = [h \in Hashes |-> 0]
    /\ webWorkers = <<>>
    /\ calls = <<>>
    /\ sends = <<>>
    /\ microtasks = <<>>
    /\ posted = <<>>
    /\ relayed = <<>>
    /\ uuid = 0
    /\ disposeCalls = 0
    /\ callerRuns = TRUE
    /\ lastCall = NoCall

----------------------------------------------------------------------------
\* Calls by the service's caller

\* Variant: createWorker does not wait for the web worker's init().
InitResolved_unawaited(registry, w) == TRUE

\* `await webWorker.init()` in getOrCreateWebWorker: the promise of init() is
\* resolved once its own `await this.workerReady` has resumed.
InitResolved(registry, w) == registry[w].inited

\* createWorker(configuration), up to `await this.getOrCreateWebWorker(...)`.
CreateWorker(configuration) ==
    /\ CallerCanCall
    /\ Len(calls) < MaxCalls
    /\ LET i    == Len(calls) + 1
           d    == disposeWorker(configuration)
           g    == getOrCreateWebWorker(d.workers, configuration)
           call == [configuration |-> configuration,
                    cancelled     |-> FALSE,
                    disposedAt    |-> "",
                    awaited       |-> g.worker,
                    worker        |-> 0,
                    windowPort    |-> "none",
                    workerPort    |-> "none",
                    pc            |-> "awaitWorker"]
       IN
       /\ calls' = Append(d.calls, call)
       /\ sends' = d.sends
       /\ processes' = [d.processes EXCEPT ![hash(configuration)] = i]
       /\ workers' = g.workers
       /\ IF InitResolved(g.webWorkers, g.worker)
          THEN /\ microtasks' = Append(d.microtasks, Task("createWorker59", i))
               /\ webWorkers' = g.webWorkers
          ELSE /\ microtasks' = d.microtasks
               /\ webWorkers' = [g.webWorkers EXCEPT ![g.worker].awaiters = Append(@, i)]
    /\ callerRuns' = TRUE
    /\ disposeCalls' = disposeCalls
    /\ lastCall' = ApiCall("createWorker", configuration)
    /\ UNCHANGED <<posted, relayed, uuid>>

\* disposeWorker(configuration), called by the service's caller.
DisposeWorker(configuration) ==
    /\ CallerCanCall
    /\ disposeCalls < MaxDisposeCalls
    /\ disposeCalls' = disposeCalls + 1
    /\ LET d == disposeWorker(configuration) IN
       /\ calls' = d.calls
       /\ sends' = d.sends
       /\ microtasks' = d.microtasks
       /\ processes' = d.processes
       /\ workers' = d.workers
    /\ callerRuns' = TRUE
    /\ lastCall' = ApiCall("disposeWorker", configuration)
    /\ UNCHANGED <<webWorkers, posted, relayed, uuid>>

----------------------------------------------------------------------------
\* Message events of a web worker's execution unit (worker.onmessage)

\* SharedProcessWorkerMessages.WorkerReady: readyResolve(worker) resolves
\* workerReady; the continuation of init() is queued.
WorkerReady(w) ==
    /\ microtasks = <<>>
    /\ w \in 1..Len(webWorkers)
    /\ ~webWorkers[w].ready
    /\ webWorkers' = [webWorkers EXCEPT ![w].ready = TRUE]
    /\ microtasks' = Append(microtasks, Task("init", w))
    /\ callerRuns' = FALSE
    /\ disposeCalls' = disposeCalls
    /\ lastCall' = NoCall
    /\ UNCHANGED <<workers, processes, calls, sends, posted, relayed, uuid>>

\* The awaiter stored under a nonce: the resolve function of the send that
\* generated the nonce.
messageAwaiter(nonce) ==
    CHOOSE s \in 1..Len(sends) : sends[s].nonce = nonce

\* Variant: an Ack whose nonce is not in the map completes the oldest pending
\* send of the web worker.
PendingAwaiter_oldest(w, nonce) ==
    LET pending == {s \in 1..Len(sends) :
                       sends[s].worker = w /\ sends[s].nonce \in webWorkers[w].nonces}
    IN  IF nonce # 0 /\ nonce \in webWorkers[w].nonces THEN messageAwaiter(nonce)
        ELSE IF pending = {} THEN 0
        ELSE CHOOSE s \in pending : \A t \in pending : s <= t

\* `if (nonce)` and mapMessageNonceToMessageResolve.get(nonce): the awaiter
\* the Ack handler finds (0: none).
PendingAwaiter(w, nonce) ==
    IF nonce # 0 /\ nonce \in webWorkers[w].nonces THEN messageAwaiter(nonce) ELSE 0

\* Variant: the awaiter is left in the map.
NoncesAfterAck_kept(w, nonce) == webWorkers[w].nonces

\* mapMessageNonceToMessageResolve of web worker w after the Ack for a nonce
\* it holds.
NoncesAfterAck(w, nonce) == webWorkers[w].nonces \ {nonce}

\* SharedProcessWorkerMessages.WorkerAck carrying `nonce` (0: no nonce; -1: a
\* nonce no send generated).  An awaiter found under the nonce is removed from
\* the map and called: the promise of its send resolves (once) and the
\* createWorker invocation awaiting a spawn is queued.
WorkerAck(w, nonce) ==
    /\ microtasks = <<>>
    /\ w \in 1..Len(webWorkers)
    /\ webWorkers[w].ready
    /\ LET s == PendingAwaiter(w, nonce) IN
       IF s # 0
       THEN /\ webWorkers' = [webWorkers EXCEPT ![w].nonces = NoncesAfterAck(w, nonce)]
            /\ sends' = [sends EXCEPT ![s].state = "acked",
                                      \* calls of the awaiter, counted up to 2
                                      ![s].resolved = IF @ < 2 THEN @ + 1 ELSE @]
            /\ microtasks' = IF sends[s].id = "Spawn" /\ sends[s].state = "posted"
                             THEN Append(microtasks, Task("createWorker73", sends[s].call))
                             ELSE microtasks
       ELSE UNCHANGED <<webWorkers, sends, microtasks>>
    /\ callerRuns' = (microtasks' = <<>>)
    /\ disposeCalls' = disposeCalls
    /\ lastCall' = IF nonce # 0 /\ nonce \in webWorkers[w].nonces
                   THEN AckEvent(w, nonce)
                   ELSE NoCall
    /\ UNCHANGED <<workers, processes, calls, posted, relayed, uuid>>

----------------------------------------------------------------------------
\* Continuations (microtasks)

\* init() after `await this.workerReady`: its promise resolves and every
\* createWorker invocation awaiting it is queued, in await order.
RECURSIVE Resumptions(_)
Resumptions(awaiters) ==
    IF awaiters = <<>> THEN <<>>
    ELSE <<Task("createWorker59", Head(awaiters))>> \o Resumptions(Tail(awaiters))

InitResume ==
    /\ microtasks # <<>>
    /\ Head(microtasks).kind = "init"
    /\ LET w == Head(microtasks).arg IN
       /\ webWorkers' = [webWorkers EXCEPT ![w].inited = TRUE, ![w].awaiters = <<>>]
       /\ microtasks' = Tail(microtasks) \o Resumptions(webWorkers[w].awaiters)
    /\ disposeCalls' = disposeCalls
    /\ lastCall' = NoCall
    /\ callerRuns' = (callerRuns \/ microtasks' = <<>>)
    /\ UNCHANGED <<workers, processes, calls, sends, posted, relayed, uuid>>

\* Variant: the check after acquiring the web worker is missing.
CancelledAfterAcquire_unchecked(i) == FALSE

\* `if (cts.token.isCancellationRequested)` after the web worker was acquired.
CancelledAfterAcquire(i) == isCancellationRequested(i)

\* Variant: the check after the spawn is missing.
CancelledAfterSpawn_unchecked(i) == FALSE

\* `if (cts.token.isCancellationRequested)` after the spawn was awaited.
CancelledAfterSpawn(i) == isCancellationRequested(i)

\* Variant: send does not check its token.
SendCancelled_unchecked(s) == FALSE

\* `if (token.isCancellationRequested)` in send, after `await this.workerReady`.
SendCancelled(s) == isCancellationRequested(sends[s].token)

\* Variant: the spawn is sent with a token that is never cancelled.
SpawnToken_none(i) == None

\* worker.spawn(configuration, workerPort, cts.token): the token of the
\* invocation's own cancellation source.
SpawnToken(i) == i

\* createWorker after `worker = await this.getOrCreateWebWorker(...)`: return
\* if cancelled, else create the MessageChannel and call worker.spawn.
CreateWorkerResume59 ==
    /\ microtasks # <<>>
    /\ Head(microtasks).kind = "createWorker59"
    /\ LET i == Head(microtasks).arg
           w == calls[i].awaited
       IN
       IF CancelledAfterAcquire(i)
       THEN /\ calls' = [calls EXCEPT ![i].worker = w, ![i].pc = "return62"]
            /\ microtasks' = Tail(microtasks)
            /\ sends' = sends
            /\ callerRuns' = TRUE
       ELSE /\ calls' = [calls EXCEPT ![i].worker = w,
                                      ![i].windowPort = "open",
                                      ![i].workerPort = "open",
                                      ![i].pc = "awaitSpawn"]
            /\ sends' = Append(sends, NewSend("Spawn", i, w, SpawnToken(i), i))
            /\ microtasks' = AwaitWorkerReady(Tail(microtasks), Len(sends) + 1)
            /\ callerRuns' = callerRuns
    /\ disposeCalls' = disposeCalls
    /\ lastCall' = NoCall
    /\ UNCHANGED <<workers, processes, webWorkers, posted, relayed, uuid>>

\* send after `await this.workerReady`: return if the token is cancelled, else
\* store the awaiter under a fresh nonce and post the message.
SendResume ==
    /\ microtasks # <<>>
    /\ Head(microtasks).kind = "send"
    /\ LET s == Head(microtasks).arg
           w == sends[s].worker
       IN
       IF SendCancelled(s)
       THEN /\ sends' = [sends EXCEPT ![s].state = "returned"]
            /\ microtasks' = IF sends[s].id = "Spawn"
                             THEN Append(Tail(microtasks), Task("createWorker73", sends[s].call))
                             ELSE Tail(microtasks)
            /\ UNCHANGED <<webWorkers, posted, uuid, calls>>
       ELSE /\ uuid' = uuid + 1
            /\ sends' = [sends EXCEPT ![s].state = "posted", ![s].nonce = uuid + 1]
            /\ webWorkers' = [webWorkers EXCEPT ![w].nonces = @ \cup {uuid + 1}]
            /\ posted' = Append(posted, [worker        |-> w,
                                         id            |-> sends[s].id,
                                         configuration |-> sends[s].configuration,
                                         nonce         |-> uuid + 1,
                                         port          |-> sends[s].port,
                                         call          |-> sends[s].call])
            /\ calls' = IF sends[s].port # 0
                        THEN [calls EXCEPT ![sends[s].port].workerPort =
                                 IF @ = "open" THEN "transferred" ELSE @]
                        ELSE calls
            /\ microtasks' = Tail(microtasks)
    /\ disposeCalls' = disposeCalls
    /\ lastCall' = NoCall
    /\ callerRuns' = (callerRuns \/ microtasks' = <<>>)
    /\ UNCHANGED <<workers, processes, relayed>>

\* Variant: the relay message is tagged with the configuration of the latest
\* createWorker call.
RelayMessage_latest(i) ==
    [configuration |-> calls[Len(calls)].configuration, port |-> i]

\* ipcRenderer.postMessage(channel, configuration, [windowPort]) of invocation
\* i: its own `configuration` and the port1 of its MessageChannel.
RelayMessage(i) == [configuration |-> calls[i].configuration, port |-> i]

\* createWorker after `await worker.spawn(...)`: return if cancelled, else
\* post the window port to the relay channel.  Either way the invocation has
\* returned, and a caller awaiting it may run.
CreateWorkerResume73 ==
    /\ microtasks # <<>>
    /\ Head(microtasks).kind = "createWorker73"
    /\ LET i == Head(microtasks).arg IN
       IF CancelledAfterSpawn(i)
       THEN /\ calls' = [calls EXCEPT ![i].pc = "return76"]
            /\ relayed' = relayed
       ELSE /\ calls' = [calls EXCEPT ![i].pc = "return84",
                                      ![i].windowPort = "transferred"]
            /\ relayed' = Append(relayed, RelayMessage(i))
    /\ microtasks' = Tail(microtasks)
    /\ callerRuns' = TRUE
    /\ disposeCalls' = disposeCalls
    /\ lastCall' = NoCall
    /\ UNCHANGED <<workers, processes, webWorkers, sends, posted, uuid>>

----------------------------------------------------------------------------

Next ==
    \/ \E c \in Configurations : CreateWorker(c)
    \/ \E c \in Configurations : DisposeWorker(c)
    \/ \E w \in 1..Len(webWorkers) : WorkerReady(w)
    \/ \E w \in 1..Len(webWorkers), n \in -1..uuid : WorkerAck(w, n)
    \/ InitResume
    \/ CreateWorkerResume59
    \/ SendResume
    \/ CreateWorkerResume73

Spec == Init /\ [][Next]_vars

\* The event loop runs the continuation at the head of the microtask queue.
RunMicrotask ==
    \/ InitResume
    \/ CreateWorkerResume59
    \/ SendResume
    \/ CreateWorkerResume73

\* The event loop always runs a queued continuation.
LoopSpec == Spec /\ WF_vars(RunMicrotask)

\* The unit of web worker w acknowledges a message it received and has not
\* acknowledged yet.
Acknowledge(w, nonce) ==
    /\ WorkerAck(w, nonce)
    /\ nonce \in webWorkers[w].nonces

\* In addition, the execution unit of every web worker signals Ready and
\* acknowledges every message it receives.
FairSpec ==
    /\ LoopSpec
    /\ \A w \in 1..MaxCalls : WF_vars(WorkerReady(w))
    /\ \A w \in 1..MaxCalls, n \in 1..(2 * MaxCalls) : WF_vars(Acknowledge(w, n))

----------------------------------------------------------------------------
\* Vocabulary of the properties

Calls == 1..Len(calls)
Sends == 1..Len(sends)
Posted == 1..Len(posted)

\* The worker-registry keys requested so far.
KeysRequested == {WorkerKey(calls[i].configuration) : i \in Calls}

\* The positions in `posted` of the Spawn / Terminate message of call i.
SpawnsOf(i) == {p \in Posted : posted[p].id = "Spawn" /\ posted[p].call = i}
TerminatesOf(i) == {p \in Posted : posted[p].id = "Terminate" /\ posted[p].call = i}

\* The relay deliveries of call i.
RelaysOf(i) == {r \in 1..Len(relayed) : relayed[r].port = i}

----------------------------------------------------------------------------
\* C1: single-flight worker creation.  A web worker is constructed only on the
\* first request for a registry key; every request for the key awaits the
\* stored one, also while it has not signalled Ready.  So the number of web
\* workers constructed equals the number of distinct keys requested, at most
\* one per key.
C1_SingleFlight ==
    /\ Len(webWorkers) = Cardinality(KeysRequested)
    /\ \A v, w \in 1..Len(webWorkers) : webWorkers[v].key = webWorkers[w].key => v = w
    /\ \A i \in Calls :
          /\ calls[i].awaited = workers[WorkerKey(calls[i].configuration)]
          /\ webWorkers[calls[i].awaited].key = WorkerKey(calls[i].configuration)

\* Two requests for one key are both waiting for a web worker that has not
\* signalled Ready, and only one web worker exists.
C1_Witness ==
    \E i, j \in Calls :
        /\ i < j
        /\ hash(calls[i].configuration) # hash(calls[j].configuration)
        /\ WorkerKey(calls[i].configuration) = WorkerKey(calls[j].configuration)
        /\ calls[i].pc = "awaitWorker" /\ calls[j].pc = "awaitWorker"
        /\ ~webWorkers[calls[j].awaited].ready
        /\ Len(webWorkers) = 1

----------------------------------------------------------------------------
\* C2 as stated: for two createWorker calls with the same identity hash, the
\* first call's cancellation source is triggered and its Terminate message is
\* posted before the second call's Spawn message is posted, wherever the
\* first call stood when the second started.
C2_TerminateBeforeSpawn_Stated ==
    \A i, j \in Calls :
        (i < j /\ hash(calls[i].configuration) = hash(calls[j].configuration)) =>
            \A p \in SpawnsOf(j) :
                /\ calls[i].cancelled
                /\ \E q \in TerminatesOf(i) : q < p

\* C2 as amended: the first call's cancellation source is triggered before the
\* second call's Spawn is posted; its Terminate is posted before that Spawn if
\* the first call had assigned its web worker when it was disposed, and no
\* Terminate is ever posted for it if it was disposed while awaiting the web
\* worker.
C2_TerminateBeforeSpawn ==
    \A i, j \in Calls :
        (i < j /\ hash(calls[i].configuration) = hash(calls[j].configuration)) =>
            /\ calls[i].cancelled
            /\ calls[i].disposedAt = "awaitWorker" => TerminatesOf(i) = {}
            /\ \A p \in SpawnsOf(j) :
                  calls[i].disposedAt # "awaitWorker" => \E q \in TerminatesOf(i) : q < p

\* The second call's Spawn is posted after the first call's Terminate, the
\* first call having been superseded while its own Spawn awaited the Ack.
C2_Witness ==
    \E i, j \in Calls :
        /\ i < j /\ hash(calls[i].configuration) = hash(calls[j].configuration)
        /\ calls[i].disposedAt = "awaitSpawn"
        /\ \E p \in SpawnsOf(j), q \in TerminatesOf(i) : q < p

----------------------------------------------------------------------------
\* C3: the handle is registered before createWorker first suspends, so a
\* disposeWorker before the web worker is acquired cancels the creation: the
\* call returns without a channel pair, without a Spawn and without a relay.
C3_DisposeBeforeAcquire ==
    \A i \in Calls :
        /\ (calls[i].pc = "awaitWorker" /\ ~calls[i].cancelled) =>
               processes[hash(calls[i].configuration)] = i
        /\ (lastCall = ApiCall("disposeWorker", calls[i].configuration)) =>
               calls[i].cancelled
        /\ calls[i].disposedAt = "awaitWorker" =>
               /\ calls[i].pc \in {"awaitWorker", "return62"}
               /\ calls[i].windowPort = "none" /\ calls[i].workerPort = "none"
               /\ \A s \in Sends : sends[s].call # i
               /\ SpawnsOf(i) = {} /\ RelaysOf(i) = {}

\* A call disposed while awaiting the web worker has resumed and returned.
C3_Witness ==
    \E i \in Calls :
        /\ calls[i].disposedAt = "awaitWorker"
        /\ calls[i].pc = "return62"
        /\ calls[i].worker # 0

----------------------------------------------------------------------------
\* C4: no stale channel delivery.  Once a call's handle is disposed, the call
\* never hands its window port to the relay, whenever its Spawn is
\* acknowledged.
C4_NoStaleRelay ==
    [][\A i \in Calls : (calls[i].cancelled /\ RelaysOf(i) = {}) => RelaysOf(i)' = {}]_vars

\* A disposed call whose Spawn was acknowledged returned without relaying.
C4_Witness ==
    \E i \in Calls, s \in Sends :
        /\ sends[s].call = i /\ sends[s].id = "Spawn" /\ sends[s].state = "acked"
        /\ calls[i].cancelled
        /\ calls[i].pc = "return76"
        /\ RelaysOf(i) = {}

----------------------------------------------------------------------------
\* C5: for each identity hash at most one handle is not cancelled, and it is
\* the one registered under the hash; a superseded or disposed handle is
\* cancelled and not registered.
C5_OneLiveHandle ==
    /\ \A i, j \in Calls :
          (/\ hash(calls[i].configuration) = hash(calls[j].configuration)
           /\ ~calls[i].cancelled /\ ~calls[j].cancelled) => i = j
    /\ \A i \in Calls :
          ~calls[i].cancelled <=> processes[hash(calls[i].configuration)] = i
    /\ \A h \in Hashes : processes[h] # 0 =>
          /\ processes[h] \in Calls
          /\ hash(calls[processes[h]].configuration) = h

\* A handle was superseded by a newer one for the same hash, which is live.
C5_Witness ==
    \E i, j \in Calls :
        /\ i < j /\ hash(calls[i].configuration) = hash(calls[j].configuration)
        /\ calls[i].cancelled /\ ~calls[j].cancelled
        /\ processes[hash(calls[j].configuration)] = j

----------------------------------------------------------------------------
\* C6: a terminate issued by the disposal of a handle always transmits its
\* message: it is never skipped although the handle's token is cancelled, and
\* the Terminate for the handle's configuration is eventually posted to the
\* web worker the handle used.
C6_Posted(s) ==
    /\ sends[s].state \in {"posted", "acked"}
    /\ \E p \in TerminatesOf(sends[s].call) :
          /\ posted[p].nonce = sends[s].nonce
          /\ posted[p].worker = calls[sends[s].call].worker
          /\ posted[p].configuration = calls[sends[s].call].configuration

C6_TerminateDelivered ==
    /\ [](\A s \in Sends : sends[s].id = "Terminate" =>
            /\ calls[sends[s].call].cancelled
            /\ sends[s].state # "returned"
            /\ sends[s].state = "awaitReady" \/ C6_Posted(s))
    /\ []<>(\A s \in Sends : sends[s].id = "Terminate" => C6_Posted(s))

\* The Terminate of a disposed handle has been posted.
C6_Witness ==
    \E s \in Sends :
        /\ sends[s].id = "Terminate"
        /\ sends[s].state = "posted"
        /\ calls[sends[s].call].cancelled
        /\ TerminatesOf(sends[s].call) # {}

----------------------------------------------------------------------------
\* C7: createWorker for {type A, module m1, window w1} and then for
\* {type A, module m2, window w2}, every message acknowledged and nothing
\* disposed.
C7_Scenario ==
    /\ Len(calls) = 2
    /\ calls[1].configuration = cfgA1
    /\ calls[2].configuration = cfgA2
    /\ \A i \in Calls : calls[i].pc = "return84" /\ ~calls[i].cancelled

\* Two Spawn messages with distinct correlation ids, and two relay deliveries
\* tagged w1 and w2, each with the window port of its own call.
C7_SpawnsAndRelays ==
    /\ \A i \in Calls : Cardinality(SpawnsOf(i)) = 1 /\ Cardinality(RelaysOf(i)) = 1
    /\ Len(posted) = 2 /\ posted[1].nonce # posted[2].nonce
    /\ Len(relayed) = 2
    /\ \A r \in 1..Len(relayed) :
          relayed[r].configuration = calls[relayed[r].port].configuration
    /\ {relayed[r].configuration.reply.windowId : r \in 1..Len(relayed)} = {"w1", "w2"}

\* C7 as stated: the scenario yields exactly one web worker for unit-type A.
C7_EndToEnd_Stated ==
    C7_Scenario =>
        /\ Cardinality({w \in 1..Len(webWorkers) : webWorkers[w].type = "A"}) = 1
        /\ C7_SpawnsAndRelays

\* C7 as amended: the scenario yields one web worker per module id, that is
\* two web workers of unit-type A, one registered under m1 and one under m2;
\* each Spawn is posted to the web worker of its module id.
C7_EndToEnd ==
    C7_Scenario =>
        /\ Cardinality({w \in 1..Len(webWorkers) : webWorkers[w].type = "A"}) = 2
        /\ {webWorkers[w].key : w \in 1..Len(webWorkers)} = {"m1", "m2"}
        /\ \A p \in Posted :
              webWorkers[posted[p].worker].key = posted[p].configuration.process.moduleId
        /\ C7_SpawnsAndRelays

\* The scenario has run to its end.
C7_Witness == C7_Scenario /\ Len(relayed) = 2

----------------------------------------------------------------------------
\* C8: disposeWorker for a configuration whose hash has no registered handle
\* is a no-op: no message, no cancellation, no port closed, registries
\* unchanged.
C8_DisposeAbsentIsNoop ==
    [][\A c \in Configurations :
          (lastCall' = ApiCall("disposeWorker", c) /\ processes[hash(c)] = 0)
              => UNCHANGED progVars]_vars

\* disposeWorker was just called for a configuration never submitted, while
\* another configuration has a registered handle.
C8_Witness ==
    \E c \in Configurations :
        /\ lastCall = ApiCall("disposeWorker", c)
        /\ \A i \in Calls : hash(calls[i].configuration) # hash(c)
        /\ \E h \in Hashes : processes[h] # 0

----------------------------------------------------------------------------
\* C9: process disposal never destroys a web worker: the worker registry only
\* grows, and the createWorker calls for one key all get the same web worker,
\* whether or not the processes it hosted were disposed.
C9_WorkersPersist ==
    [][/\ \A k \in WorkerKeys : workers[k] # 0 => workers'[k] = workers[k]
       /\ \A w \in 1..Len(webWorkers) :
             w \in 1..Len(webWorkers') /\ webWorkers'[w].key = webWorkers[w].key
       /\ \A i, j \in 1..Len(calls') :
             WorkerKey(calls'[i].configuration) = WorkerKey(calls'[j].configuration)
                 => calls'[i].awaited = calls'[j].awaited]_vars

\* A web worker that hosted a process since disposed (Terminate posted) hosts
\* the process of a later createWorker for the same key.
C9_Witness ==
    \E i, j \in Calls :
        /\ i < j
        /\ WorkerKey(calls[i].configuration) = WorkerKey(calls[j].configuration)
        /\ calls[i].cancelled /\ SpawnsOf(i) # {} /\ TerminatesOf(i) # {}
        /\ calls[j].worker = calls[i].worker
        /\ SpawnsOf(j) # {}

----------------------------------------------------------------------------
\* C10: round trip.  A posted Spawn or Terminate is resolved by at most one
\* Ack, which calls its awaiter exactly once; and if every unit signals Ready
\* and acknowledges every message, every send eventually resolves and every
\* createWorker call that is not disposed eventually relays its window port
\* (a settled send or call stays settled, so again and again all of them are).
C10_SendSettled(s) ==
    s \in Sends /\ sends[s].state \in {"acked", "returned"}

C10_CallSettled(i) ==
    /\ i \in Calls
    /\ \/ calls[i].cancelled
       \/ calls[i].pc = "return84" /\ RelaysOf(i) # {}

C10_RoundTrip ==
    /\ [](\A s \in Sends :
            /\ sends[s].resolved = (IF sends[s].state = "acked" THEN 1 ELSE 0)
            /\ sends[s].state \in {"posted", "acked"} =>
                  Cardinality({p \in Posted : posted[p].nonce = sends[s].nonce}) = 1
            /\ sends[s].state = "posted" <=>
                  (sends[s].nonce # 0 /\ sends[s].nonce \in webWorkers[sends[s].worker].nonces))
    /\ []<>(\A s \in Sends : C10_SendSettled(s))
    /\ []<>(\A i \in Calls : C10_CallSettled(i))

\* Both the Spawn and the Terminate of a call were acknowledged, and another
\* call relayed its window port.
C10_Witness ==
    /\ \E s, t \in Sends :
          /\ sends[s].call = sends[t].call
          /\ sends[s].id = "Spawn" /\ sends[s].state = "acked"
          /\ sends[t].id = "Terminate" /\ sends[t].state = "acked"
    /\ \E i \in Calls : ~calls[i].cancelled /\ RelaysOf(i) # {}

----------------------------------------------------------------------------
\* A continuation runs in this step: the head of the microtask queue is taken.
\* (Calls of the caller only append to the queue and label the step.)
MicrotaskStep ==
    /\ microtasks # <<>>
    /\ microtasks' # microtasks
    /\ lastCall' = NoCall

\* C11: a send whose token is cancelled when it reaches the check before the
\* transmission adds no entry to the nonce map, generates no nonce and posts
\* nothing; it returns, and the createWorker invocation awaiting it resumes
\* without any Ack.
C11_CancelledSendSkips ==
    /\ [](\A s \in Sends : sends[s].state = "returned" =>
            /\ sends[s].nonce = 0 /\ sends[s].resolved = 0
            /\ sends[s].token # None /\ calls[sends[s].token].cancelled
            /\ \A p \in Posted :
                  ~(posted[p].call = sends[s].call /\ posted[p].id = sends[s].id))
    /\ [][\A s \in Sends :
            (/\ MicrotaskStep
             /\ Head(microtasks) = Task("send", s)
             /\ sends[s].token # None
             /\ calls[sends[s].token].cancelled)
            => /\ posted' = posted /\ webWorkers' = webWorkers /\ uuid' = uuid
               /\ sends'[s].state = "returned"
               /\ sends[s].id = "Spawn" =>
                     microtasks' = Append(Tail(microtasks),
                                          Task("createWorker73", sends[s].call))]_vars

\* A Spawn whose handle was disposed between the call of spawn and the check
\* in send returned without posting, and its createWorker invocation returned.
C11_Witness ==
    \E s \in Sends :
        /\ sends[s].id = "Spawn" /\ sends[s].state = "returned"
        /\ calls[sends[s].call].pc = "return76"
        /\ SpawnsOf(sends[s].call) = {}

----------------------------------------------------------------------------
\* C12: Ack handling.  An Ack whose correlation id is pending at the Worker
\* removes exactly that entry from the pending map and completes exactly the
\* send that stored it (once), resuming the createWorker invocation behind a
\* Spawn; nothing else changes.  An Ack whose correlation id is unknown,
\* already used or missing changes no state of the service: of the message
\* events of a web worker, only WorkerReady and an Ack for a pending nonce
\* change anything.
C12_AckHandling ==
    [][/\ \A w \in 1..Len(webWorkers), n \in 1..uuid :
            (/\ microtasks = <<>>
             /\ n \in webWorkers[w].nonces
             /\ lastCall' = AckEvent(w, n))
            => LET s == messageAwaiter(n) IN
               /\ sends[s].worker = w
               /\ sends[s].state = "posted"
               /\ sends[s].resolved = 0
               /\ webWorkers' = [webWorkers EXCEPT ![w].nonces = @ \ {n}]
               /\ sends' = [sends EXCEPT ![s].state = "acked", ![s].resolved = 1]
               /\ microtasks' = IF sends[s].id = "Spawn"
                                THEN <<Task("createWorker73", sends[s].call)>>
                                ELSE <<>>
               /\ UNCHANGED <<workers, processes, calls, posted, relayed, uuid>>
       /\ (/\ microtasks = <<>>
           /\ lastCall' = NoCall
           /\ \A w \in 1..Len(webWorkers) : webWorkers'[w].ready = webWorkers[w].ready)
          => UNCHANGED progVars]_vars

\* An Ack was matched while an older entry of the same Worker stayed pending,
\* and a later Ack without a pending correlation id left both as they were.
\* (Two createWorker calls for one configuration and no disposeWorker call:
\* the Terminate of the first handle can be acknowledged only once the queue
\* has drained, so the step that reset lastCall after that Ack was a further
\* Ack, which found no awaiter.)
C12_Witness ==
    /\ lastCall = NoCall
    /\ microtasks = <<>>
    /\ Len(calls) = 2 /\ disposeCalls = 0
    /\ \A i \in Calls : calls[i].pc = "awaitSpawn"
    /\ \E s, t \in Sends :
          /\ sends[s].id = "Terminate"
          /\ sends[s].worker = sends[t].worker
          /\ sends[t].nonce < sends[s].nonce
          /\ sends[s].state = "acked" /\ sends[s].resolved = 1
          /\ sends[t].state = "posted"
          /\ sends[t].nonce \in webWorkers[sends[t].worker].nonces
          /\ sends[s].nonce \notin webWorkers[sends[s].worker].nonces

----------------------------------------------------------------------------
\* C13: sends queue behind readiness.  Every message posted to a web worker
\* was posted after that web worker received WorkerReady (with each post, the
\* receiving web worker is ready), and a web worker that is ready stays ready.
C13_SendAfterReady ==
    /\ [](\A p \in Posted : webWorkers[posted[p].worker].ready)
    /\ [][/\ \A w \in 1..Len(webWorkers) :
                webWorkers[w].ready => webWorkers'[w].ready
          /\ posted' # posted =>
                /\ Len(posted') = Len(posted) + 1
                /\ webWorkers[posted'[Len(posted')].worker].ready]_vars

\* A message has reached one web worker while a createWorker invocation still
\* waits for another web worker that has not signalled WorkerReady.
C13_Witness ==
    /\ posted # <<>>
    /\ \E w \in 1..Len(webWorkers) :
          /\ ~webWorkers[w].ready
          /\ webWorkers[w].awaiters # <<>>
          /\ \A p \in Posted : posted[p].worker # w

----------------------------------------------------------------------------
\* C14: within one web worker, messages are posted in the order in which send
\* was called (no send overtakes an earlier one that is still to run), while
\* acknowledgments are matched by nonce: a send is acknowledged exactly when
\* its own nonce has left the map, whatever older sends are still pending.
C14_OrderAndMatching ==
    /\ \A p, q \in Posted :
          (p < q /\ posted[p].worker = posted[q].worker)
          => messageAwaiter(posted[p].nonce) < messageAwaiter(posted[q].nonce)
    /\ \A s, t \in Sends :
          (/\ s < t
           /\ sends[s].worker = sends[t].worker
           /\ sends[t].state \in {"posted", "acked"})
          => sends[s].state # "awaitReady"
    /\ \A s \in Sends :
          /\ sends[s].state = "posted"
             <=> sends[s].nonce \in webWorkers[sends[s].worker].nonces
          /\ sends[s].state = "acked"
             <=> (sends[s].nonce # 0
                  /\ sends[s].nonce \notin webWorkers[sends[s].worker].nonces)
          /\ sends[s].state = "acked" => sends[s].resolved = 1

\* The Spawn of one handle and then the Terminate of another were posted to
\* the same web worker; the Terminate was acknowledged first, the Spawn is
\* still pending.
C14_Witness ==
    \E p, q \in Posted :
        /\ p < q
        /\ posted[p].worker = posted[q].worker
        /\ posted[p].call # posted[q].call
        /\ posted[p].id = "Spawn" /\ posted[q].id = "Terminate"
        /\ sends[messageAwaiter(posted[q].nonce)].state = "acked"
        /\ sends[messageAwaiter(posted[p].nonce)].state = "posted"
        /\ calls[posted[p].call].pc = "awaitSpawn"

----------------------------------------------------------------------------
\* The spawn send of a createWorker invocation that reached line 73.
C15_SpawnOf(i) == CHOOSE s \in Sends : sends[s].id = "Spawn" /\ sends[s].call = i

\* C15: cancellation after a message was posted does not end the wait for its
\* acknowledgment.  A nonce leaves the map of its web worker, and a posted
\* send completes, only in the step of the Ack carrying that nonce (never in
\* a disposal); a createWorker invocation whose Spawn was posted leaves its
\* `await worker.spawn(...)` only after that Ack, cancelled or not.
C15_CancelKeepsPending ==
    /\ [](\A i \in Calls :
             (\E s \in Sends : /\ sends[s].id = "Spawn" /\ sends[s].call = i
                               /\ sends[s].state = "posted")
             => /\ calls[i].pc = "awaitSpawn"
                /\ \A k \in 1..Len(microtasks) :
                      microtasks[k] # Task("createWorker73", i))
    /\ [][/\ \A w \in 1..Len(webWorkers) : \A n \in webWorkers[w].nonces :
                n \notin webWorkers'[w].nonces
                => microtasks = <<>> /\ lastCall' = AckEvent(w, n)
          /\ \A s \in Sends :
                (sends[s].state = "posted" /\ sends'[s] # sends[s])
                => /\ microtasks = <<>>
                   /\ lastCall' = AckEvent(sends[s].worker, sends[s].nonce)
          /\ \A i \in Calls :
                (calls[i].pc = "awaitSpawn" /\ calls'[i].pc # "awaitSpawn")
                => sends[C15_SpawnOf(i)].state \in {"acked", "returned"}]_vars

\* A handle was disposed while its Spawn was posted and unacknowledged: the
\* nonce is still in the map, the send is still pending and the cancelled
\* invocation is still suspended, with no continuation queued.
C15_Witness ==
    \E s \in Sends :
        /\ sends[s].id = "Spawn" /\ sends[s].state = "posted"
        /\ sends[s].nonce \in webWorkers[sends[s].worker].nonces
        /\ calls[sends[s].call].cancelled
        /\ calls[sends[s].call].disposedAt = "awaitSpawn"
        /\ calls[sends[s].call].pc = "awaitSpawn"
        /\ microtasks = <<>>

----------------------------------------------------------------------------
\* C16: the relay receives a port from a createWorker invocation at most
\* once, and only when the Spawn of that invocation has been posted and its
\* Ack received; the port relayed is the window end of the MessageChannel
\* whose worker end travelled with that Spawn, and the relay message carries
\* the configuration of that invocation (the one the Spawn carried).
C16_RelayAfterAck ==
    /\ \A i \in Calls : Cardinality(RelaysOf(i)) <= 1
    /\ \A r \in 1..Len(relayed) :
          LET i == relayed[r].port IN
          /\ i \in Calls
          /\ relayed[r].configuration = calls[i].configuration
          /\ calls[i].pc = "return84"
          /\ calls[i].windowPort = "transferred"
          /\ \E p \in SpawnsOf(i) :
                /\ posted[p].port = i
                /\ posted[p].configuration = relayed[r].configuration
                /\ sends[messageAwaiter(posted[p].nonce)].state = "acked"
                /\ sends[messageAwaiter(posted[p].nonce)].call = i
    /\ \A i \in Calls :
          calls[i].pc = "return84" => Cardinality(RelaysOf(i)) = 1

\* One invocation has relayed its window port after its Spawn was
\* acknowledged, while a later invocation with another configuration, whose
\* Spawn is posted and unacknowledged, has relayed nothing.
C16_Witness ==
    \E i, j \in Calls :
        /\ i < j
        /\ calls[i].configuration # calls[j].configuration
        /\ Cardinality(RelaysOf(i)) = 1
        /\ RelaysOf(j) = {}
        /\ \E p \in SpawnsOf(j) :
              sends[messageAwaiter(posted[p].nonce)].state = "posted"

----------------------------------------------------------------------------
\* C17: a Terminate is posted for a handle only if the Spawn of the same
\* handle was posted earlier.  This fails: a handle disposed after its
\* invocation called worker.spawn (line 73) and before the rest of that send
\* ran finds the token cancelled, so the Spawn is dropped (line 209), while
\* the Terminate of the disposal, sent with CancellationToken.None, is posted.
C17_TerminateOnlyAfterSpawn ==
    \A i \in Calls : \A q \in TerminatesOf(i) : \E p \in SpawnsOf(i) : p < q

----------------------------------------------------------------------------
\* C18: no Spawn is posted for a handle after the handle was disposed.  Once
\* the cancellation source of an invocation is cancelled, no Spawn of that
\* invocation is added to the posted messages; hence wherever a Spawn and a
\* Terminate of one handle were both posted, the Spawn came first.
C18_NoSpawnAfterDispose ==
    /\ [](\A i \in Calls : \A p \in SpawnsOf(i), q \in TerminatesOf(i) : p < q)
    /\ [][\A i \in Calls : calls[i].cancelled => SpawnsOf(i)' = SpawnsOf(i)]_vars

\* A handle was disposed while its invocation had called spawn and the Spawn
\* was not yet posted: the Terminate was posted and acknowledged, the Spawn
\* never was.
C18_Witness ==
    \E i \in Calls :
        /\ calls[i].cancelled
        /\ calls[i].disposedAt = "awaitSpawn"
        /\ SpawnsOf(i) = {}
        /\ \E q \in TerminatesOf(i) :
              sends[messageAwaiter(posted[q].nonce)].state = "acked"

----------------------------------------------------------------------------
============================================================================
